---- MODULE Spec2Model ----
(***************************************************************************)
(* A model of src/python.cpp: the AudioProcessor wrapper around the        *)
(* SpeexDSP preprocessor (speex_preprocess_state_init / _ctl / _run /      *)
(* _state_destroy).  The wrapper's fields, its three operations            *)
(* (constructor, ProcessChunk, destructor) and the memory they touch are   *)
(* modelled from the source.  The library itself is not part of the        *)
(* source: it is represented by a deterministic stand-in whose behaviour   *)
(* with both features disabled is left open (libKind).                     *)
(***************************************************************************)
EXTENDS Integers, Sequences, FiniteSets, TLC

VARIABLES
  state,                \* AudioProcessor::state, per instance (NULL or a handle)
  m_chunk_size_samples, \* AudioProcessor::m_chunk_size_samples, per instance
  m_chunk_size_bytes,   \* AudioProcessor::m_chunk_size_bytes, per instance
  phase,                \* life cycle of each instance
  ext,                  \* the library's heap: handle -> preprocessor state
  nextHandle,           \* the next handle the library's allocator hands out
  endian,               \* byte order of the host (memcpy into int16_t)
  libKind,              \* what the library does when denoise and AGC are off
  args,                 \* the constructor's arguments, per instance
  ctorErr,              \* how construction ended, per instance
  log,                  \* the library calls made on behalf of each instance
  last,                 \* the most recent ProcessChunk call of each instance
  ins,                  \* observer: inputs of all ProcessChunk calls so far
  outs                  \* observer: outcomes of all ProcessChunk calls so far

vars == <<state, m_chunk_size_samples, m_chunk_size_bytes, phase, ext,
          nextHandle, endian, libKind, args, ctorErr, log, last, ins, outs>>

----------------------------------------------------------------------------
(* Bounds of the model *)

MaxCalls == 2
MaxBytes == 4
AdaptMod == 3

(* Program constants *)

IntMax == 2147483647
BytesPerSample == 2
SampleRate == 16000
NULL == 0

IntMin == (-IntMax) - 1
Pow30 == (IntMax \div 2) + 1

Inst == {1, 2}
Handles == 1..Cardinality(Inst)

ByteVals == {0, 255}
ChunkSizes == {IntMin, (-Pow30) - 1, -1, 0, 1, 2, Pow30, IntMax}
AutoGains == {-1, 0, 2}
NoiseLevels == {-15, 0, 5}

RECURSIVE SeqsOfLen(_, _)
SeqsOfLen(S, n) ==
  IF n = 0 THEN {<<>>}
  ELSE {Append(s, x) : s \in SeqsOfLen(S, n - 1), x \in S}

Inputs == UNION {SeqsOfLen(ByteVals, n) : n \in 0..MaxBytes}

PairArgs == {[chunk |-> 1, auto_gain |-> 0, noise |-> 0],
             [chunk |-> 1, auto_gain |-> 2, noise |-> -15]}
PairInputs == {<<0, 0>>, <<255, 0>>, <<0>>}

----------------------------------------------------------------------------
(* 32-bit signed arithmetic of the member initialiser                      *)
(* m_chunk_size_bytes(chunk_size_samples * 2).                             *)

\* Whether x * 2 leaves the range of int.
MulOverflows(x) == x >= Pow30 \/ x < -Pow30

\* x * 2 reduced modulo 2^32 into the range of int, computed without
\* leaving that range.
WrapMul2(x) ==
  IF x >= Pow30 THEN 2 * (x - Pow30) + IntMin
  ELSE IF x < -Pow30 THEN (2 * (x + Pow30) + IntMax) + 1
  ELSE x * BytesPerSample

\* Signed overflow is undefined: a build either wraps the product or traps.
OverflowOutcomes == {"wrap", "trap"}

----------------------------------------------------------------------------
(* Bytes and 16-bit samples: memcpy into std::vector<int16_t> and the      *)
(* reinterpret_cast back to bytes.                                         *)

ToInt16(b0, b1) ==
  LET u == IF endian = "little" THEN b0 + 256 * b1 ELSE 256 * b0 + b1
  IN IF u >= 32768 THEN u - 65536 ELSE u

FromInt16(s) ==
  LET u == IF s < 0 THEN s + 65536 ELSE s
  IN IF endian = "little" THEN <<u % 256, u \div 256>>
     ELSE <<u \div 256, u % 256>>

\* The samples a byte image of 2n bytes holds.
BytesToSamples(b) ==
  [k \in 1..(Len(b) \div 2) |-> ToInt16(b[2 * k - 1], b[2 * k])]

\* The byte image of a sample buffer.
SamplesToBytes(sm) ==
  [k \in 1..(2 * Len(sm)) |->
     FromInt16(sm[(k + 1) \div 2])[IF k % 2 = 1 THEN 1 ELSE 2]]

\* std::vector<int16_t> temp_audio_buffer(n): n value-initialised samples,
\* as a byte image.
ZeroBuffer(n) == [k \in 1..(BytesPerSample * n) |-> 0]

\* memcpy(dst, src, n) on byte images.
Memcpy(dst, src, n) ==
  [k \in 1..Len(dst) |-> IF k <= n THEN src[k] ELSE dst[k]]

----------------------------------------------------------------------------
(* The library, as the wrapper uses it.  It is outside the source: the     *)
(* stand-in below is a deterministic function of the preprocessor state    *)
(* and the buffer, mutates the buffer in place and updates the adaptive    *)
(* statistics on every run.                                                *)

NoState == [live |-> FALSE, frame_size |-> 0, sampling_rate |-> 0,
            denoise |-> 1, noise_suppress |-> -15, agc |-> 0,
            agc_level |-> 8000, adapt |-> 0]

\* speex_preprocess_state_init may fail to allocate and return NULL.
AllocOutcomes == {"ok", "null"}

speex_preprocess_state_init(frame_size, sampling_rate) ==
  [NoState EXCEPT !.live = TRUE, !.frame_size = frame_size,
                  !.sampling_rate = sampling_rate]

speex_preprocess_ctl(st, request, value) ==
  CASE request = "SET_DENOISE" -> [st EXCEPT !.denoise = value]
    [] request = "SET_NOISE_SUPPRESS" -> [st EXCEPT !.noise_suppress = value]
    [] request = "SET_AGC" -> [st EXCEPT !.agc = value]
    [] request = "SET_AGC_LEVEL" -> [st EXCEPT !.agc_level = value]

Sat16(x) == IF x > 32767 THEN 32767 ELSE IF x < -32768 THEN -32768 ELSE x

ProcessSample(st, s) ==
  LET g == IF st.agc = 1 THEN (IF st.agc_level >= 8000 THEN 3 ELSE 2) ELSE 1
      d == IF st.denoise = 1
           THEN (IF st.noise_suppress < 0 THEN 2 ELSE 1) + (st.adapt % 2)
           ELSE 1
      base == IF st.agc = 0 /\ st.denoise = 0 /\ libKind = "resynth"
              THEN s - (s % 2) + st.adapt
              ELSE s
  IN Sat16((base * g) \div d)

RECURSIVE NonZero(_)
NonZero(sm) ==
  IF sm = <<>> THEN 0
  ELSE (IF Head(sm) # 0 THEN 1 ELSE 0) + NonZero(Tail(sm))

\* speex_preprocess_run(st, x): the buffer after the call and the new state.
speex_preprocess_run(st, sm) ==
  [buf |-> [k \in 1..Len(sm) |-> ProcessSample(st, sm[k])],
   st |-> [st EXCEPT !.adapt = (st.adapt + 1 + NonZero(sm)) % AdaptMod]]

speex_preprocess_state_destroy(st) == [st EXCEPT !.live = FALSE]

----------------------------------------------------------------------------
(* The wrapper: class AudioProcessor                                       *)

NoArgs == [chunk |-> 0, auto_gain |-> 0, noise |-> 0]

NoCall == [n |-> 0, input |-> <<>>, err |-> "", has_result |-> FALSE,
           audio |-> <<>>, input_after |-> <<>>, run_calls |-> 0,
           run_on |-> "", run_in |-> <<>>, temp_len |-> 0,
           temp_after |-> <<>>, pre |-> NoState]

LogEntry(op, req, a, b, h) == [op |-> op, req |-> req, a |-> a, b |-> b, h |-> h]

\* A trapped overflow ends the whole process.
Aborted == \E i \in Inst : phase[i] = "aborted"

Init ==
  /\ state = [i \in Inst |-> NULL]
  /\ m_chunk_size_samples = [i \in Inst |-> 0]
  /\ m_chunk_size_bytes = [i \in Inst |-> 0]
  /\ phase = [i \in Inst |-> "uninit"]
  /\ ext = [h \in Handles |-> NoState]
  /\ nextHandle = 1
  /\ endian \in {"little", "big"}
  /\ libKind \in {"passthrough", "resynth"}
  /\ args = [i \in Inst |-> NoArgs]
  /\ ctorErr = [i \in Inst |-> ""]
  /\ log = [i \in Inst |-> <<>>]
  /\ last = [i \in Inst |-> NoCall]
  /\ ins = [i \in Inst |-> <<>>]
  /\ outs = [i \in Inst |-> <<>>]

\* if (chunk_size_samples <= 0) throw std::invalid_argument
ArgCheckFails(chunk_size_samples) == chunk_size_samples <= 0

\* Mutant of CtlCalls: denoising is enabled only for a positive strength.
CtlCallsPositiveOnly(auto_gain, noise_suppression) ==
  LET noise_state == IF noise_suppression > 0 THEN 1 ELSE 0
      agc_enabled == IF auto_gain > 0 THEN 1 ELSE 0
  IN <<[req |-> "SET_DENOISE", value |-> noise_state]>>
     \o (IF noise_suppression > 0
         THEN <<[req |-> "SET_NOISE_SUPPRESS", value |-> noise_suppression]>>
         ELSE <<>>)
     \o <<[req |-> "SET_AGC", value |-> agc_enabled]>>
     \o (IF auto_gain > 0
         THEN <<[req |-> "SET_AGC_LEVEL", value |-> auto_gain]>>
         ELSE <<>>)

\* The configuration calls of the constructor, in order.
CtlCalls(auto_gain, noise_suppression) ==
  LET noise_state == IF noise_suppression = 0 THEN 0 ELSE 1
      agc_enabled == IF auto_gain > 0 THEN 1 ELSE 0
  IN <<[req |-> "SET_DENOISE", value |-> noise_state]>>
     \o (IF noise_suppression # 0
         THEN <<[req |-> "SET_NOISE_SUPPRESS", value |-> noise_suppression]>>
         ELSE <<>>)
     \o <<[req |-> "SET_AGC", value |-> agc_enabled]>>
     \o (IF auto_gain > 0
         THEN <<[req |-> "SET_AGC_LEVEL", value |-> auto_gain]>>
         ELSE <<>>)

RECURSIVE ApplyCtl(_, _)
ApplyCtl(st, calls) ==
  IF calls = <<>> THEN st
  ELSE ApplyCtl(speex_preprocess_ctl(st, Head(calls).req, Head(calls).value),
                Tail(calls))

CtlLog(calls, h) ==
  [k \in 1..Len(calls) |-> LogEntry("ctl", calls[k].req, calls[k].value, 0, h)]

\* AudioProcessor::AudioProcessor(chunk_size_samples, auto_gain, noise_suppression)
Construct(i, chunk_size_samples, auto_gain, noise_suppression) ==
  /\ phase[i] = "uninit"
  /\ ~Aborted
  /\ \E ub \in OverflowOutcomes, alloc \in AllocOutcomes :
       LET h == nextHandle
           calls == CtlCalls(auto_gain, noise_suppression)
       IN
       /\ args' = [args EXCEPT ![i] = [chunk |-> chunk_size_samples,
                                       auto_gain |-> auto_gain,
                                       noise |-> noise_suppression]]
       /\ IF MulOverflows(chunk_size_samples) /\ ub = "trap"
          THEN /\ phase' = [phase EXCEPT ![i] = "aborted"]
               /\ ctorErr' = [ctorErr EXCEPT ![i] = "trap"]
               /\ UNCHANGED <<state, m_chunk_size_samples, m_chunk_size_bytes,
                              ext, nextHandle, log>>
          ELSE /\ m_chunk_size_samples' =
                    [m_chunk_size_samples EXCEPT ![i] = chunk_size_samples]
               /\ m_chunk_size_bytes' =
                    [m_chunk_size_bytes EXCEPT ![i] = WrapMul2(chunk_size_samples)]
               /\ IF ArgCheckFails(chunk_size_samples)
                  THEN /\ phase' = [phase EXCEPT ![i] = "failed"]
                       /\ ctorErr' = [ctorErr EXCEPT ![i] = "InvalidArgument"]
                       /\ UNCHANGED <<state, ext, nextHandle, log>>
                  ELSE IF alloc = "null"
                  THEN /\ state' = [state EXCEPT ![i] = NULL]
                       /\ log' = [log EXCEPT ![i] =
                                    <<LogEntry("state_init", "", chunk_size_samples,
                                               SampleRate, NULL)>>]
                       /\ phase' = [phase EXCEPT ![i] = "failed"]
                       /\ ctorErr' = [ctorErr EXCEPT ![i] = "InitializationFailure"]
                       /\ UNCHANGED <<ext, nextHandle>>
                  ELSE /\ state' = [state EXCEPT ![i] = h]
                       /\ nextHandle' = nextHandle + 1
                       /\ ext' = [ext EXCEPT ![h] =
                                    ApplyCtl(speex_preprocess_state_init(
                                               chunk_size_samples, SampleRate),
                                             calls)]
                       /\ log' = [log EXCEPT ![i] =
                                    <<LogEntry("state_init", "", chunk_size_samples,
                                               SampleRate, h)>> \o CtlLog(calls, h)]
                       /\ phase' = [phase EXCEPT ![i] = "ready"]
                       /\ ctorErr' = [ctorErr EXCEPT ![i] = "none"]
  /\ UNCHANGED <<endian, libKind, last>>

\* py::buffer(audio_input_py).request().ndim: a bytes object is one-dimensional.
Ndim(inp) == 1

\* Mutant of SizeMismatch: only a short input is rejected.
SizeMismatchShortOnly(size, bytes) == size < bytes \/ bytes < 0

\* if (input_buf_info.size != m_chunk_size_bytes) throw
SizeMismatch(size, bytes) == size # bytes

\* Mutant of RunBuffer: the caller's buffer is handed to the library.
RunBufferAliased == "audio_input"

\* The buffer handed to speex_preprocess_run.
RunBuffer == "temp_audio_buffer"

\* Mutant of ThisState: the handle is one static shared by all instances.
SharedState(i) == IF nextHandle > 1 THEN nextHandle - 1 ELSE state[i]

\* The handle handed to speex_preprocess_run: this->state.
ThisState(i) == state[i]

\* Mutant of ResultLen: the sample count is used as the byte count.
ResultLenSamples(i) == m_chunk_size_samples[i]

\* The length of the bytes object built from the temporary buffer.
ResultLen(i) == m_chunk_size_bytes[i]

\* A call that throws before anything is allocated or run.
Reject(i, inp, err) ==
  [err |-> err, has_result |-> FALSE, audio |-> <<>>, input_after |-> inp,
   run_calls |-> 0, run_on |-> "", run_in |-> <<>>, temp_len |-> 0,
   temp_after |-> <<>>, pre |-> NoState, ext |-> ext]

\* Copy in, run the library once, copy out.
Accept(i, inp) ==
  LET h == ThisState(i)
      temp0 == Memcpy(ZeroBuffer(m_chunk_size_samples[i]), inp,
                      m_chunk_size_bytes[i])
      onTemp == RunBuffer = "temp_audio_buffer"
      handed == IF onTemp THEN temp0 ELSE inp
      r == speex_preprocess_run(ext[h], BytesToSamples(handed))
      temp1 == IF onTemp THEN SamplesToBytes(r.buf) ELSE temp0
      caller1 == IF onTemp THEN inp ELSE SamplesToBytes(r.buf)
  IN [err |-> "none", has_result |-> TRUE,
      audio |-> SubSeq(temp1, 1, ResultLen(i)), input_after |-> caller1,
      run_calls |-> 1, run_on |-> RunBuffer, run_in |-> handed,
      temp_len |-> Len(temp0) \div BytesPerSample, temp_after |-> temp1,
      pre |-> ext[h], ext |-> [ext EXCEPT ![h] = r.st]]

\* Mutant of CallEffect: the library runs before the size is checked.
CallEffectRunFirst(i, inp) ==
  IF SizeMismatch(Len(inp), m_chunk_size_bytes[i])
  THEN [Reject(i, inp, "ShapeMismatch") EXCEPT
          !.ext = [ext EXCEPT ![ThisState(i)] =
                     speex_preprocess_run(@, BytesToSamples(inp)).st]]
  ELSE Accept(i, inp)

\* The body of AudioProcessor::ProcessChunk as a function of the instance
\* and the input.
CallEffect(i, inp) ==
  IF Ndim(inp) # 1 THEN Reject(i, inp, "NotOneDim")
  ELSE IF SizeMismatch(Len(inp), m_chunk_size_bytes[i])
  THEN Reject(i, inp, "ShapeMismatch")
  ELSE Accept(i, inp)

\* AudioProcessor::ProcessChunk(audio_input)
ProcessChunk(i, inp) ==
  /\ phase[i] = "ready"
  /\ ~Aborted
  /\ last[i].n < MaxCalls
  /\ LET e == CallEffect(i, inp)
     IN /\ ext' = e.ext
        /\ last' = [last EXCEPT ![i] =
                      [n |-> last[i].n + 1, input |-> inp, err |-> e.err,
                       has_result |-> e.has_result, audio |-> e.audio,
                       input_after |-> e.input_after, run_calls |-> e.run_calls,
                       run_on |-> e.run_on, run_in |-> e.run_in,
                       temp_len |-> e.temp_len, temp_after |-> e.temp_after,
                       pre |-> e.pre]]
        /\ log' = [log EXCEPT ![i] =
                     IF e.run_calls = 1
                     THEN Append(@, LogEntry("run", "", 0, 0, ThisState(i)))
                     ELSE @]
  /\ UNCHANGED <<state, m_chunk_size_samples, m_chunk_size_bytes, phase,
                 nextHandle, endian, libKind, args, ctorErr>>

\* Mutant of Destroy: the handle is dropped without being released.
DestroyLeak(i) ==
  /\ phase[i] = "ready"
  /\ ~Aborted
  /\ state' = [state EXCEPT ![i] = NULL]
  /\ phase' = [phase EXCEPT ![i] = "destroyed"]
  /\ UNCHANGED <<ext, log, m_chunk_size_samples, m_chunk_size_bytes, nextHandle,
                 endian, libKind, args, ctorErr, last>>

\* AudioProcessor::~AudioProcessor()
Destroy(i) ==
  /\ phase[i] = "ready"
  /\ ~Aborted
  /\ IF state[i] # NULL
     THEN /\ ext' = [ext EXCEPT ![state[i]] = speex_preprocess_state_destroy(@)]
          /\ log' = [log EXCEPT ![i] =
                       Append(@, LogEntry("state_destroy", "", 0, 0, state[i]))]
          /\ state' = [state EXCEPT ![i] = NULL]
     ELSE UNCHANGED <<ext, log, state>>
  /\ phase' = [phase EXCEPT ![i] = "destroyed"]
  /\ UNCHANGED <<m_chunk_size_samples, m_chunk_size_bytes, nextHandle, endian,
                 libKind, args, ctorErr, last>>

----------------------------------------------------------------------------
(* One processor, every argument and every input of the bounded sets.      *)

ConstructAny ==
  \E c \in ChunkSizes, g \in AutoGains, n \in NoiseLevels : Construct(1, c, g, n)

ProcessAny == \E inp \in Inputs : ProcessChunk(1, inp)

DestroyOne == Destroy(1)

Next ==
  \/ ConstructAny /\ UNCHANGED <<ins, outs>>
  \/ ProcessAny /\ UNCHANGED <<ins, outs>>
  \/ DestroyOne /\ UNCHANGED <<ins, outs>>

Spec == Init /\ [][Next]_vars

----------------------------------------------------------------------------
(* Two processors, with the history of each one's calls observed.          *)

PairConstruct ==
  \E i \in Inst, a \in PairArgs :
    /\ Construct(i, a.chunk, a.auto_gain, a.noise)
    /\ UNCHANGED <<ins, outs>>

PairProcess ==
  \E i \in Inst, inp \in PairInputs :
    /\ ProcessChunk(i, inp)
    /\ ins' = [ins EXCEPT ![i] = Append(@, inp)]
    /\ outs' = [outs EXCEPT ![i] =
                  Append(@, [err |-> last'[i].err, audio |-> last'[i].audio])]

PairDestroy == \E i \in Inst : Destroy(i) /\ UNCHANGED <<ins, outs>>

NextPair == PairConstruct \/ PairProcess \/ PairDestroy

SpecPair == Init /\ [][NextPair]_vars

----------------------------------------------------------------------------
(* Properties                                                              *)

\* Construction returned normally (the object exists or existed).
Constructed(i) == phase[i] \in {"ready", "destroyed"}

\* len = 2 * n, stated without leaving the range of int.
IsTwice(len, n) == len % 2 = 0 /\ len \div 2 = n

Called(i) == last[i].n > 0

CountOp(i, op) == Cardinality({k \in DOMAIN log[i] : log[i][k].op = op})

CtlAt(i, req) ==
  {k \in DOMAIN log[i] : log[i][k].op = "ctl" /\ log[i][k].req = req}

\* C1: on a constructed processor with chunk length N, a ProcessChunk call
\* whose input is not exactly N*2 bytes long (shorter, longer or empty)
\* fails with ShapeMismatch and returns no result.
C1_ShapeMismatch ==
  \A i \in Inst :
    (Constructed(i) /\ Called(i)
       /\ ~IsTwice(Len(last[i].input), m_chunk_size_samples[i]))
    => (last[i].err = "ShapeMismatch" /\ ~last[i].has_result
        /\ last[i].audio = <<>>)

C1_Witness ==
  \E i \in Inst :
    /\ Constructed(i) /\ Called(i)
    /\ m_chunk_size_samples[i] = 1
    /\ Len(last[i].input) > 2
    /\ last[i].err = "ShapeMismatch"

\* C2: a construction with chunk_size_samples <= 0 fails with
\* InvalidArgument before the state-init call: no library call is made, no
\* handle is held, the processor is never ready.
C2_InvalidArgument ==
  \A i \in Inst :
    (phase[i] # "uninit" /\ args[i].chunk <= 0)
    => (ctorErr[i] = "InvalidArgument" /\ phase[i] = "failed"
        /\ log[i] = <<>> /\ state[i] = NULL)

\* C3: a constructed processor was given a positive chunk_size_samples,
\* stores it, and stores a byte length of exactly twice that.
C3_BytesTwiceSamples ==
  \A i \in Inst :
    Constructed(i)
    => (args[i].chunk > 0 /\ m_chunk_size_samples[i] = args[i].chunk
        /\ IsTwice(m_chunk_size_bytes[i], m_chunk_size_samples[i]))

\* C4: the handle is acquired at most once, stays the one acquired while
\* the processor is ready, is released exactly once (the handle acquired) by
\* destruction after a successful construction, and never otherwise.
C4_HandleLifecycle ==
  \A i \in Inst :
    LET acq == {k \in DOMAIN log[i] :
                  log[i][k].op = "state_init" /\ log[i][k].h # NULL}
        rel == {k \in DOMAIN log[i] : log[i][k].op = "state_destroy"}
    IN /\ CountOp(i, "state_init") <= 1
       /\ Cardinality(rel) <= 1
       /\ phase[i] = "ready"
            => (Cardinality(acq) = 1 /\ rel = {} /\ state[i] # NULL
                /\ \A k \in acq : log[i][k].h = state[i]
                /\ ext[state[i]].live)
       /\ phase[i] = "destroyed"
            => (Cardinality(acq) = 1 /\ Cardinality(rel) = 1
                /\ state[i] = NULL
                /\ \A k \in acq, j \in rel :
                     k < j /\ log[i][j].h = log[i][k].h
                     /\ ~ext[log[i][k].h].live)
       /\ phase[i] \in {"uninit", "failed", "aborted"}
            => (acq = {} /\ rel = {} /\ state[i] = NULL)

C4_Witness ==
  \E i \in Inst :
    phase[i] = "destroyed" /\ last[i].run_calls = 1
    /\ CountOp(i, "state_destroy") = 1

\* C5: a successful ProcessChunk call returns a result of exactly N*2
\* bytes, as long as the input, holding what the library's run left in the
\* temporary buffer that was filled with the input bytes.
C5_ResultIsTempBuffer ==
  \A i \in Inst :
    (Called(i) /\ last[i].err = "none")
    => /\ last[i].has_result
       /\ IsTwice(Len(last[i].audio), m_chunk_size_samples[i])
       /\ Len(last[i].audio) = Len(last[i].input)
       /\ last[i].audio = last[i].temp_after
       /\ last[i].audio =
            SamplesToBytes(speex_preprocess_run(
                             last[i].pre, BytesToSamples(last[i].input)).buf)

C5_Witness ==
  \E i \in Inst :
    /\ Called(i) /\ last[i].err = "none"
    /\ m_chunk_size_samples[i] = 2
    /\ last[i].audio # last[i].input

\* C7: a successful ProcessChunk call runs the library exactly once, on the
\* temporary buffer of N samples holding a copy of the input, and leaves
\* the caller's input as it was.
C7_CallerBufferUntouched ==
  \A i \in Inst :
    (Called(i) /\ last[i].err = "none")
    => /\ last[i].run_calls = 1
       /\ last[i].run_on = "temp_audio_buffer"
       /\ last[i].temp_len = m_chunk_size_samples[i]
       /\ last[i].run_in = last[i].input
       /\ last[i].input_after = last[i].input

C7_Witness ==
  \E i \in Inst :
    /\ Called(i) /\ last[i].err = "none"
    /\ last[i].temp_after # last[i].input
    /\ last[i].input_after = last[i].input

\* C9: a successful construction, and only that, configures the library:
\* denoise-enable is 1 iff noise_suppression # 0 and the strength is
\* forwarded iff it is enabled; AGC-enable is 1 iff auto_gain > 0 and the
\* level is forwarded iff it is enabled; every ctl call follows the
\* successful state-init and precedes every run and the destroy.
C9_Configuration ==
  \A i \in Inst :
    LET L == log[i]
        n == CountOp(i, "ctl")
        den == IF args[i].noise # 0 THEN 1 ELSE 0
        agc == IF args[i].auto_gain > 0 THEN 1 ELSE 0
    IN /\ ~Constructed(i) => n = 0
       /\ Constructed(i) =>
            /\ L[1].op = "state_init" /\ L[1].h # NULL
            /\ \A k \in DOMAIN L : L[k].op = "ctl" <=> (2 <= k /\ k <= n + 1)
            /\ \A k \in DOMAIN L : L[k].op = "ctl" => L[k].h = L[1].h
            /\ Cardinality(CtlAt(i, "SET_DENOISE")) = 1
            /\ \A k \in CtlAt(i, "SET_DENOISE") : L[k].a = den
            /\ Cardinality(CtlAt(i, "SET_NOISE_SUPPRESS")) = den
            /\ \A k \in CtlAt(i, "SET_NOISE_SUPPRESS") : L[k].a = args[i].noise
            /\ Cardinality(CtlAt(i, "SET_AGC")) = 1
            /\ \A k \in CtlAt(i, "SET_AGC") : L[k].a = agc
            /\ Cardinality(CtlAt(i, "SET_AGC_LEVEL")) = agc
            /\ \A k \in CtlAt(i, "SET_AGC_LEVEL") : L[k].a = args[i].auto_gain
            /\ n = 2 + den + agc

C9_Witness ==
  \E i \in Inst :
    /\ phase[i] = "destroyed"
    /\ args[i].noise < 0 /\ args[i].auto_gain > 0
    /\ CountOp(i, "ctl") = 4 /\ CountOp(i, "run") = MaxCalls

----------------------------------------------------------------------------
(* Properties of two processors                                            *)

\* Everything that belongs to instance i, its library state included.
View(i) ==
  <<state[i], m_chunk_size_samples[i], m_chunk_size_bytes[i], phase[i],
    args[i], ctorErr[i], log[i], last[i], ins[i], outs[i],
    IF state[i] # NULL THEN ext[state[i]] ELSE NoState>>

Min(a, b) == IF a < b THEN a ELSE b

\* The inputs among the first k calls of instance i that were processed.
RECURSIVE OkPrefix(_, _)
OkPrefix(i, k) ==
  IF k = 0 THEN <<>>
  ELSE IF outs[i][k].err = "none"
       THEN Append(OkPrefix(i, k - 1), ins[i][k])
       ELSE OkPrefix(i, k - 1)

SameOutcomes ==
  \A a \in Inst, b \in Inst :
    (Constructed(a) /\ Constructed(b) /\ args[a] = args[b])
    => \A k \in 1..Min(Len(ins[a]), Len(ins[b])) :
         SubSeq(ins[a], 1, k) = SubSeq(ins[b], 1, k)
         => outs[a][k] = outs[b][k]

NoInterference ==
  \A i \in Inst, j \in Inst :
    (i # j /\ View(i)' # View(i)) => View(j)' = View(j)

\* C6: two processors constructed with the same parameters and fed the
\* same inputs produce the same outcome at every step, however their calls
\* interleave, and an operation on one leaves the other as it was.
C6_Determinism == []SameOutcomes /\ [][NoInterference]_vars

C6_Witness ==
  /\ Constructed(1) /\ Constructed(2)
  /\ args[1] = args[2] /\ args[1].auto_gain > 0
  /\ Len(ins[1]) = MaxCalls /\ ins[1] = ins[2]
  /\ outs[1][1].err = "none" /\ outs[1][MaxCalls].err = "none"
  /\ outs[1][MaxCalls].audio # ins[1][MaxCalls]
  /\ phase[1] = "destroyed" /\ phase[2] = "ready"

\* A step in which instance i makes a call that fails with ShapeMismatch.
FailStep(i) ==
  /\ Len(ins'[i]) = Len(ins[i]) + 1
  /\ outs'[i][Len(outs'[i])].err = "ShapeMismatch"

RejectedBeforeRun ==
  \A i \in Inst :
    FailStep(i)
    => /\ UNCHANGED <<ext, state, m_chunk_size_samples, m_chunk_size_bytes,
                      phase, log, nextHandle>>
       /\ phase'[i] = "ready"
       /\ last'[i].run_calls = 0

\* The outcome of a call is decided by the constructor's arguments, the
\* inputs processed before it and its own input: rejected calls in between
\* do not count.
OutcomeIgnoresRejected ==
  \A a \in Inst, b \in Inst :
    (Constructed(a) /\ Constructed(b) /\ args[a] = args[b])
    => \A ka \in DOMAIN ins[a], kb \in DOMAIN ins[b] :
         (ins[a][ka] = ins[b][kb] /\ OkPrefix(a, ka - 1) = OkPrefix(b, kb - 1))
         => outs[a][ka] = outs[b][kb]

\* C10: a ProcessChunk call that fails with ShapeMismatch runs nothing and
\* leaves the library state, the stored sizes and the handle as they were,
\* the processor stays ready, and every later call has the outcome it would
\* have had without the failing call.
C10_RejectedCallHasNoEffect ==
  []OutcomeIgnoresRejected /\ [][RejectedBeforeRun]_vars

C10_Witness ==
  \E i \in Inst, j \in Inst :
    /\ i # j /\ Constructed(i) /\ Constructed(j) /\ args[i] = args[j]
    /\ args[i].noise # 0
    /\ Len(ins[i]) = 2 /\ Len(ins[j]) = 1
    /\ outs[i][1].err = "ShapeMismatch" /\ outs[i][2].err = "none"
    /\ ins[j][1] = ins[i][2] /\ outs[j][1] = outs[i][2]

====
